---- MODULE Spec2Model ----
(***************************************************************************)
(* Model of care/facility/api/viewsets/patient_sample.py: the visibility   *)
(* filter of patient samples and the transactional create / update that    *)
(* appends one PatientSampleFlow row per write.                            *)
(*                                                                         *)
(* Python dicts (validated_data) are functions whose DOMAIN is the set of  *)
(* keys present.  The persistent store is the pair (samples, flows) of     *)
(* committed rows; the writes of an open transaction.atomic() block are    *)
(* held in tx[r] and reach the store when the block exits.                 *)
(***************************************************************************)
EXTENDS Integers, Sequences, FiniteSets, TLC

\* ---------------------------------------------------------------- bounds
NReq == 2
MaxRequests == 2
MaxCreates == 1
MaxListed == 2
MaxLists == 1

\* SQL NULL / Python None for integer columns and URL kwargs
NULL == -1

\* ----------------------------------------------------------------- world
\* User.TYPE_VALUE_MAP ranks (ordered: generic < DistrictLabAdmin < StateLabAdmin)
TYPE_Staff == 10
TYPE_DistrictLabAdmin == 25
TYPE_DistrictAdmin == 30
TYPE_StateLabAdmin == 35
TYPE_StateAdmin == 40

\* the actors: request.user
User == <<
  [username |-> "admin",  is_superuser |-> TRUE,  user_type |-> TYPE_Staff,            state |-> 1,    district |-> 1],
  [username |-> "dlab",   is_superuser |-> FALSE, user_type |-> TYPE_DistrictLabAdmin, state |-> 2,    district |-> 1],
  [username |-> "slab",   is_superuser |-> FALSE, user_type |-> TYPE_StateLabAdmin,    state |-> 1,    district |-> 3],
  [username |-> "staff",  is_superuser |-> FALSE, user_type |-> TYPE_Staff,            state |-> 1,    district |-> 1],
  [username |-> "dadmin", is_superuser |-> FALSE, user_type |-> TYPE_DistrictAdmin,    state |-> 1,    district |-> 2],
  [username |-> "sadmin", is_superuser |-> FALSE, user_type |-> TYPE_StateAdmin,       state |-> NULL, district |-> 1] >>

Users == DOMAIN User

\* Facility rows reached through consultation__facility
Facility == <<
  [created_by |-> 4, state |-> 1,    district |-> 1],
  [created_by |-> 2, state |-> 1,    district |-> 2],
  [created_by |-> 3, state |-> 2,    district |-> 3],
  [created_by |-> 1, state |-> NULL, district |-> NULL] >>

\* patient_data.PatientRegistration ids; patient 3 has no consultation
Patients == {1, 2, 3}

\* patient_data.PatientConsultation rows, keyed by id
PatientConsultation ==
  (11 :> [patient |-> 1, facility |-> 1]) @@
  (12 :> [patient |-> 2, facility |-> 3]) @@
  (13 :> [patient |-> 2, facility |-> 4]) @@
  (14 :> [patient |-> 1, facility |-> 2])

\* PatientSample.SAMPLE_TEST_FLOW_CHOICES / SAMPLE_TEST_RESULT_CHOICES values
Statuses == {1, 2, 3}
Results == {1, 3}
DefaultStatus == 1
DefaultResult == 3

\* ------------------------------------------------------- dict operations
EmptyDict == [k \in {} |-> 0]
Put(d, k, v) == (k :> v) @@ d
Pop(d, k) == [x \in DOMAIN d \ {k} |-> d[x]]
\* bool(d.get(k))
Truthy(d, k) == k \in DOMAIN d /\ d[k] # 0 /\ d[k] # NULL

SetMax(S) == CHOOSE x \in S : \A y \in S : y <= x

\* ------------------------------------------------- PatientSampleFilterBackend
HasFacility(row) == row.consultation_id \in DOMAIN PatientConsultation
FacilityOf(row) == Facility[PatientConsultation[row.consultation_id].facility]

Q_created_by(u, row) == HasFacility(row) /\ FacilityOf(row).created_by = u
Q_state(u, row) == HasFacility(row) /\ FacilityOf(row).state = User[u].state
Q_district(u, row) == HasFacility(row) /\ FacilityOf(row).district = User[u].district

\* mutant: the district clause under `if` instead of `elif`
q_objects_IfNotElif(u, row) ==
  \/ Q_created_by(u, row)
  \/ User[u].user_type >= TYPE_StateLabAdmin /\ Q_state(u, row)
  \/ User[u].user_type >= TYPE_DistrictLabAdmin /\ Q_district(u, row)

q_objects(u, row) ==
  IF User[u].user_type >= TYPE_StateLabAdmin
    THEN Q_created_by(u, row) \/ Q_state(u, row)
    ELSE IF User[u].user_type >= TYPE_DistrictLabAdmin
      THEN Q_created_by(u, row) \/ Q_district(u, row)
      ELSE Q_created_by(u, row)

\* table: the PatientSample rows by id; queryset: the ids selected so far
filter_queryset(u, table, queryset) ==
  IF User[u].is_superuser
    THEN queryset
    ELSE {s \in queryset : q_objects(u, table[s])}

\* PatientSampleViewSet.get_queryset
get_queryset(table, patient_pk) ==
  IF patient_pk # NULL
    THEN {s \in DOMAIN table : table[s].patient_id = patient_pk}
    ELSE DOMAIN table

\* ------------------------------------------------ perform_create, lines 88-107
ConsultationsOf(p) == {c \in DOMAIN PatientConsultation : PatientConsultation[c].patient = p}

\* mutant: order_by("id")[0]
LatestConsultation_Oldest(p) == CHOOSE x \in ConsultationsOf(p) : \A y \in ConsultationsOf(p) : x <= y

\* PatientConsultation.objects.filter(patient=p).order_by("-id")[0]
LatestConsultation(p) == SetMax(ConsultationsOf(p))

OverridePatient(payload, patient_pk) ==
  IF patient_pk # NULL THEN Put(payload, "patient_id", patient_pk) ELSE payload

CreateNotes(vd) == IF "notes" \in DOMAIN vd THEN vd["notes"] ELSE "create"

\* mutant: lines 92-93 missing, the patient read with .get()
ResolveCreate_NoLinkageCheck(payload, patient_pk) ==
  LET vd0 == OverridePatient(payload, patient_pk)
      notes == CreateNotes(vd0)
      vd == Pop(vd0, "notes")
      patient == IF "patient_id" \in DOMAIN vd THEN vd["patient_id"] ELSE NULL
  IN IF "consultation_id" \notin DOMAIN vd
       THEN IF ConsultationsOf(patient) = {}
              THEN [error |-> "patient_id", validated_data |-> vd, notes |-> notes]
              ELSE [error |-> "none", notes |-> notes,
                    validated_data |-> Put(vd, "consultation", LatestConsultation(patient))]
       ELSE IF vd["consultation_id"] \notin DOMAIN PatientConsultation
              THEN [error |-> "consultation_id", validated_data |-> vd, notes |-> notes]
              ELSE [error |-> "none", notes |-> notes,
                    validated_data |-> Put(vd, "consultation", vd["consultation_id"])]

\* mutant: .first() instead of [0], so a patient without consultation raises nothing
ResolveCreate_FirstOrNone(payload, patient_pk) ==
  LET vd0 == OverridePatient(payload, patient_pk)
      notes == CreateNotes(vd0)
      vd == Pop(vd0, "notes")
  IN IF ~Truthy(vd, "patient_id") /\ ~Truthy(vd, "consultation_id")
       THEN [error |-> "non_field_errors", validated_data |-> vd, notes |-> notes]
       ELSE IF "consultation_id" \notin DOMAIN vd
         THEN [error |-> "none", notes |-> notes,
               validated_data |-> Put(vd, "consultation",
                                      IF ConsultationsOf(vd["patient_id"]) = {} THEN NULL
                                      ELSE LatestConsultation(vd["patient_id"]))]
         ELSE IF vd["consultation_id"] \notin DOMAIN PatientConsultation
                THEN [error |-> "consultation_id", validated_data |-> vd, notes |-> notes]
                ELSE [error |-> "none", notes |-> notes,
                      validated_data |-> Put(vd, "consultation", vd["consultation_id"])]

\* the part of perform_create before the transaction: the error raised
\* ("none" when it reaches line 109), validated_data and notes at that point
ResolveCreate(payload, patient_pk) ==
  LET vd0 == OverridePatient(payload, patient_pk)
      notes == CreateNotes(vd0)
      vd == Pop(vd0, "notes")
  IN IF ~Truthy(vd, "patient_id") /\ ~Truthy(vd, "consultation_id")
       THEN [error |-> "non_field_errors", validated_data |-> vd, notes |-> notes]
       ELSE IF "consultation_id" \notin DOMAIN vd
         THEN IF ConsultationsOf(vd["patient_id"]) = {}
                THEN [error |-> "patient_id", validated_data |-> vd, notes |-> notes]
                ELSE [error |-> "none", notes |-> notes,
                      validated_data |-> Put(vd, "consultation", LatestConsultation(vd["patient_id"]))]
         ELSE IF vd["consultation_id"] \notin DOMAIN PatientConsultation
                THEN [error |-> "consultation_id", validated_data |-> vd, notes |-> notes]
                ELSE [error |-> "none", notes |-> notes,
                      validated_data |-> Put(vd, "consultation", vd["consultation_id"])]

\* --------------------------------------------------------------- serializers
\* PatientSampleSerializer.create: the row built from validated_data
SerializerCreate(vd) ==
  [status          |-> IF "status" \in DOMAIN vd THEN vd["status"] ELSE DefaultStatus,
   result          |-> IF "result" \in DOMAIN vd THEN vd["result"] ELSE DefaultResult,
   patient_id      |-> IF "patient_id" \in DOMAIN vd THEN vd["patient_id"] ELSE NULL,
   consultation_id |-> vd["consultation"]]

\* the patient foreign key of the new row refers to an existing patient or is NULL
ForeignKeysHold(row) == row.patient_id \in Patients \cup {NULL}

\* PatientSamplePatchSerializer.update: setattr for each validated field, then save()
SerializerUpdate(row, vd) ==
  [k \in DOMAIN row |-> IF k \in DOMAIN vd THEN vd[k] ELSE row[k]]

\* mutant: the default note without the username
UpdateNotes_Plain(u, vd) ==
  IF "notes" \in DOMAIN vd THEN vd["notes"] ELSE "updated"

UpdateNotes(u, vd) ==
  IF "notes" \in DOMAIN vd THEN vd["notes"] ELSE "updated by " \o User[u].username

\* instance.patientsampleflow_set.create(status=instance.status, notes=notes, created_by=request.user)
FlowRow(id, row, notes, u, now) ==
  [patient_sample |-> id, status |-> row.status, notes |-> notes,
   created_by |-> u, created_date |-> now]

\* history: a stored row tagged with the time of the sample write of its request
Tagged(row, n) == Put(row, "rid", n)

\* ------------------------------------------------------------ list filters
\* District.name as a sequence of characters
DistrictName == << <<"K", "o">>, <<"o", "K">>, <<"T", "v">> >>

Lower(c) == CASE c = "K" -> "k" [] c = "O" -> "o" [] c = "T" -> "t" [] c = "V" -> "v" [] OTHER -> c
LowerAll(w) == [i \in DOMAIN w |-> Lower(w[i])]

\* lookup_expr="icontains"
IContains(name, needle) ==
  \E i \in 0..(Len(name) - Len(needle)) :
    LowerAll(SubSeq(name, i + 1, i + Len(needle))) = LowerAll(needle)

\* PatientSampleFilterSet applied by filters.DjangoFilterBackend
FilterSet(params, table, queryset) ==
  {s \in queryset :
     /\ "district" \in DOMAIN params =>
          HasFacility(table[s]) /\ FacilityOf(table[s]).district = params["district"]
     /\ "district_name" \in DOMAIN params =>
          /\ HasFacility(table[s])
          /\ FacilityOf(table[s]).district # NULL
          /\ IContains(DistrictName[FacilityOf(table[s]).district], params["district_name"])
     /\ "status" \in DOMAIN params => table[s].status = params["status"]
     /\ "result" \in DOMAIN params => table[s].result = params["result"]}

\* order_by("-id")
RECURSIVE OrderByIdDesc(_)
OrderByIdDesc(S) ==
  IF S = {} THEN <<>> ELSE <<SetMax(S)>> \o OrderByIdDesc(S \ {SetMax(S)})

\* ------------------------------------------------------------------ state
VARIABLES
  samples,    \* committed PatientSample rows: id -> row
  flows,      \* committed PatientSampleFlow rows
  pc,         \* position of each request slot in its handler
  req,        \* the request of each slot and the handler's local variables
  tx,         \* the uncommitted writes of each slot's transaction.atomic() block
  nextId,     \* PatientSample id sequence
  clock,      \* time source of created_date, and of the history tag of a write
  nreq,       \* number of requests accepted so far
  updated,    \* history: sample id -> number of committed updates
  last        \* the most recently completed request, with its response

vars == <<samples, flows, pc, req, tx, nextId, clock, nreq, updated, last>>

Reqs == 1..NReq
NoReq == [kind |-> "none"]
NoTx == [samples |-> EmptyDict, flows |-> {}]

\* the store after k creates have committed one after the other (rows[i] written
\* with note notes[i] by actor authors[i]), no request being in progress
Seeded(k, rows, notes, authors) ==
  /\ samples = [i \in 1..k |-> Tagged(rows[i], 2 * i - 1)]
  /\ flows = {Tagged(FlowRow(i, rows[i], notes[i], authors[i], 2 * i), 2 * i - 1) : i \in 1..k}
  /\ pc = [r \in Reqs |-> "idle"]
  /\ req = [r \in Reqs |-> NoReq]
  /\ tx = [r \in Reqs |-> NoTx]
  /\ nextId = k + 1
  /\ clock = 2 * k + 1
  /\ nreq = 0
  /\ updated = [i \in 1..k |-> 0]
  /\ last = NoReq

\* the empty store
InitEmpty == Seeded(0, <<>>, <<>>, <<>>)

\* a free slot takes the next request
Accept(r) ==
  /\ pc[r] = "idle"
  /\ nreq < MaxRequests
  /\ nreq' = nreq + 1

\* the handler of slot r returns or raises: the response goes out, and an open
\* transaction.atomic() block that exits by an exception rolls back
Finish(r, response) ==
  /\ pc' = [pc EXCEPT ![r] = "idle"]
  /\ req' = [req EXCEPT ![r] = NoReq]
  /\ tx' = [tx EXCEPT ![r] = NoTx]
  /\ last' = [req[r] EXCEPT !.response = response, !.instance = EmptyDict]

\* a request that never opens a transaction ends at once with this response
Reply(request, response) ==
  /\ last' = [request EXCEPT !.response = response]
  /\ UNCHANGED <<pc, req, tx>>

\* a row another open transaction has written is locked until that transaction ends
Locked(r, id) == \E o \in Reqs \ {r} : id \in DOMAIN tx[o].samples

\* get_object(): the row with this id among filter_queryset(get_queryset())
Visible(u, id, patient_pk) ==
  id \in filter_queryset(u, samples, get_queryset(samples, patient_pk))

\* ---------------------------------------------------------- perform_create
\* POST: lines 88-107; a ValidationError ends the request before the transaction
PerformCreate(r, u, payload, patient_pk) ==
  /\ Accept(r)
  /\ LET res == ResolveCreate(payload, patient_pk)
         request == [kind |-> "create", rid |-> NULL, user |-> u, payload |-> payload,
                     patient_pk |-> patient_pk, id |-> NULL, instance |-> EmptyDict,
                     validated_data |-> res.validated_data, notes |-> res.notes,
                     response |-> "pending"]
     IN IF res.error # "none"
          THEN Reply(request, res.error)
          ELSE /\ pc' = [pc EXCEPT ![r] = "create_sample"]
               /\ req' = [req EXCEPT ![r] = request]
               /\ UNCHANGED <<tx, last>>
  /\ UNCHANGED <<samples, flows, nextId, clock, updated>>

\* mutant: no transaction.atomic() around the create; the sample row is visible at once
CreateSample_Autocommit(r) ==
  /\ pc[r] = "create_sample"
  /\ LET row == SerializerCreate(req[r].validated_data)
     IN /\ samples' = (nextId :> Tagged(row, clock)) @@ samples
        /\ req' = [req EXCEPT ![r].id = nextId, ![r].instance = row, ![r].rid = clock]
  /\ nextId' = nextId + 1
  /\ clock' = clock + 1
  /\ pc' = [pc EXCEPT ![r] = "create_flow"]
  /\ UNCHANGED <<flows, tx, nreq, updated, last>>

\* lines 109-110: with transaction.atomic(): instance = serializer.create(validated_data)
CreateSample(r) ==
  /\ pc[r] = "create_sample"
  /\ LET row == SerializerCreate(req[r].validated_data)
     IN /\ tx' = [tx EXCEPT ![r].samples = nextId :> Tagged(row, clock)]
        /\ req' = [req EXCEPT ![r].id = nextId, ![r].instance = row, ![r].rid = clock]
  /\ nextId' = nextId + 1
  /\ clock' = clock + 1
  /\ pc' = [pc EXCEPT ![r] = "create_flow"]
  /\ UNCHANGED <<samples, flows, nreq, updated, last>>

\* the flow row insert of lines 111 and 119; the store may reject it, and the
\* exception then leaves the atomic block, which rolls back
WriteFlow(r) ==
  \/ /\ tx' = [tx EXCEPT ![r].flows =
                 {Tagged(FlowRow(req[r].id, req[r].instance, req[r].notes, req[r].user, clock),
                         req[r].rid)}]
     /\ clock' = clock + 1
     /\ pc' = [pc EXCEPT ![r] = "commit"]
     /\ UNCHANGED <<req, last>>
  \/ /\ Finish(r, "DatabaseError")
     /\ UNCHANGED clock

\* line 111
CreateFlow(r) ==
  /\ pc[r] = "create_flow"
  /\ WriteFlow(r)
  /\ UNCHANGED <<samples, flows, nextId, nreq, updated>>

\* ---------------------------------------------------------- perform_update
\* PATCH: get_object, then lines 115-116
PerformUpdate(r, u, id, payload, patient_pk) ==
  /\ Accept(r)
  /\ LET request == [kind |-> "update", rid |-> NULL, user |-> u, payload |-> payload,
                     patient_pk |-> patient_pk, id |-> id, instance |-> EmptyDict,
                     validated_data |-> Pop(payload, "notes"), notes |-> UpdateNotes(u, payload),
                     response |-> "pending"]
     IN IF ~Visible(u, id, patient_pk)
          THEN Reply(request, "NotFound")
          ELSE /\ pc' = [pc EXCEPT ![r] = "update_sample"]
               /\ req' = [req EXCEPT ![r] = [request EXCEPT !.instance = Pop(samples[id], "rid")]]
               /\ UNCHANGED <<tx, last>>
  /\ UNCHANGED <<samples, flows, nextId, clock, updated>>

\* mutant: the update resolves the consultation again, as the create does
UpdateSample_Relink(r) ==
  /\ pc[r] = "update_sample"
  /\ ~Locked(r, req[r].id)
  /\ LET row == [SerializerUpdate(req[r].instance, req[r].validated_data)
                   EXCEPT !.consultation_id = LatestConsultation(req[r].instance.patient_id)]
     IN /\ tx' = [tx EXCEPT ![r].samples = req[r].id :> Tagged(row, clock)]
        /\ req' = [req EXCEPT ![r].instance = row, ![r].rid = clock]
  /\ clock' = clock + 1
  /\ pc' = [pc EXCEPT ![r] = "update_flow"]
  /\ UNCHANGED <<samples, flows, nextId, nreq, updated, last>>

\* mutant: save(update_fields=...) writes the validated columns only, over the stored row
UpdateSample_ChangedFieldsOnly(r) ==
  /\ pc[r] = "update_sample"
  /\ ~Locked(r, req[r].id)
  /\ LET row == SerializerUpdate(req[r].instance, req[r].validated_data)
         stored == IF req[r].id \in DOMAIN samples
                     THEN SerializerUpdate(Pop(samples[req[r].id], "rid"), req[r].validated_data)
                     ELSE row
     IN /\ tx' = [tx EXCEPT ![r].samples = req[r].id :> Tagged(stored, clock)]
        /\ req' = [req EXCEPT ![r].instance = row, ![r].rid = clock]
  /\ clock' = clock + 1
  /\ pc' = [pc EXCEPT ![r] = "update_flow"]
  /\ UNCHANGED <<samples, flows, nextId, nreq, updated, last>>

\* lines 117-118: with transaction.atomic(): instance = serializer.update(instance, validated_data)
\* save() writes every column of the in-memory instance (and inserts the row
\* again when it has been deleted meanwhile); it waits for a locked row
UpdateSample(r) ==
  /\ pc[r] = "update_sample"
  /\ ~Locked(r, req[r].id)
  /\ LET row == SerializerUpdate(req[r].instance, req[r].validated_data)
     IN /\ tx' = [tx EXCEPT ![r].samples = req[r].id :> Tagged(row, clock)]
        /\ req' = [req EXCEPT ![r].instance = row, ![r].rid = clock]
  /\ clock' = clock + 1
  /\ pc' = [pc EXCEPT ![r] = "update_flow"]
  /\ UNCHANGED <<samples, flows, nextId, nreq, updated, last>>

\* line 119
UpdateFlow(r) ==
  /\ pc[r] = "update_flow"
  /\ WriteFlow(r)
  /\ UNCHANGED <<samples, flows, nextId, nreq, updated>>

\* mutant: the flow entry of a sample is replaced instead of added
Commit_ReplaceFlow(r) ==
  /\ pc[r] = "commit"
  /\ IF \A id \in DOMAIN tx[r].samples : ForeignKeysHold(tx[r].samples[id])
       THEN /\ samples' = tx[r].samples @@ samples
            /\ flows' = {f \in flows : f.patient_sample # req[r].id} \cup tx[r].flows
            /\ updated' = IF req[r].kind = "create"
                            THEN Put(updated, req[r].id, 0)
                            ELSE [updated EXCEPT ![req[r].id] = @ + 1]
            /\ Finish(r, "ok")
       ELSE /\ Finish(r, "IntegrityError")
            /\ UNCHANGED <<samples, flows, updated>>
  /\ UNCHANGED <<nextId, clock, nreq>>

\* lines 112 and 120: the atomic block exits; its writes become visible together.
\* The deferred foreign-key check of the sample row runs here.
Commit(r) ==
  /\ pc[r] = "commit"
  /\ IF \A id \in DOMAIN tx[r].samples : ForeignKeysHold(tx[r].samples[id])
       THEN /\ samples' = tx[r].samples @@ samples
            /\ flows' = flows \cup tx[r].flows
            /\ updated' = IF req[r].kind = "create"
                            THEN Put(updated, req[r].id, 0)
                            ELSE [updated EXCEPT ![req[r].id] = @ + 1]
            /\ Finish(r, "ok")
       ELSE /\ Finish(r, "IntegrityError")
            /\ UNCHANGED <<samples, flows, updated>>
  /\ UNCHANGED <<nextId, clock, nreq>>

\* ------------------------------------------------------- destroy and list
\* DELETE: get_object, then the row is removed (waiting for a locked row); its
\* flow rows stay
Destroy(r, u, id, patient_pk) ==
  /\ Accept(r)
  /\ LET request == [kind |-> "destroy", user |-> u, id |-> id, patient_pk |-> patient_pk,
                     response |-> "pending"]
     IN IF ~Visible(u, id, patient_pk)
          THEN /\ Reply(request, "NotFound")
               /\ UNCHANGED samples
          ELSE /\ ~Locked(r, id)
               /\ samples' = Pop(samples, id)
               /\ Reply(request, "ok")
  /\ UNCHANGED <<flows, nextId, clock, updated>>

\* GET: filter_queryset(get_queryset()) through both filter backends, newest first
List(r, u, patient_pk, params) ==
  /\ Accept(r)
  /\ LET candidates == get_queryset(samples, patient_pk)
         permitted == filter_queryset(u, samples, candidates)
     IN Reply([kind |-> "list", user |-> u, patient_pk |-> patient_pk, params |-> params,
               candidates |-> candidates, permitted |-> permitted,
               results |-> OrderByIdDesc(FilterSet(params, samples, permitted)),
               response |-> "pending"], "ok")
  /\ UNCHANGED <<samples, flows, nextId, clock, updated>>

\* ------------------------------------------------------------ request inputs
Opt(k, V) == {EmptyDict} \cup {k :> v : v \in V}

\* POST bodies after field validation: ids may be missing, 0 or unknown (99)
CreatePayloads ==
  {a @@ b @@ c @@ d : a \in Opt("patient_id", {0} \cup Patients),
                      b \in Opt("consultation_id", {0, 99} \cup DOMAIN PatientConsultation),
                      c \in Opt("notes", {"urgent"}),
                      d \in Opt("status", {2})}

\* PATCH bodies: the restricted partial-update projection
PatchPayloads ==
  {a @@ b @@ c : a \in Opt("status", Statuses), b \in Opt("result", Results),
                 c \in Opt("notes", {"checked"})}

\* the requests of the concurrent specification
Actors == {1, 4}
ConcurrentCreates == {[patient_id |-> 1], [patient_id |-> 1, consultation_id |-> 11, notes |-> "urgent"]}
ConcurrentPatches == {[status |-> 2], [result |-> 1, notes |-> "checked"]}
SampleIds == 1..(nextId - 1)

\* the empty store, or the store after one of the creates below has committed
Init ==
  \/ InitEmpty
  \/ \E u \in Actors, payload \in ConcurrentCreates :
       Seeded(1, <<SerializerCreate(ResolveCreate(payload, NULL).validated_data)>>,
              <<ResolveCreate(payload, NULL).notes>>, <<u>>)

Next ==
  \/ \E r \in Reqs, u \in Actors, payload \in ConcurrentCreates : PerformCreate(r, u, payload, NULL)
  \/ \E r \in Reqs : CreateSample(r)
  \/ \E r \in Reqs : CreateFlow(r)
  \/ \E r \in Reqs, u \in Actors, id \in SampleIds, payload \in ConcurrentPatches :
       PerformUpdate(r, u, id, payload, NULL)
  \/ \E r \in Reqs : UpdateSample(r)
  \/ \E r \in Reqs : UpdateFlow(r)
  \/ \E r \in Reqs : Commit(r)
  \/ \E r \in Reqs, u \in Actors, id \in SampleIds : Destroy(r, u, id, NULL)
  \/ \E r \in Reqs, u \in Actors : List(r, u, NULL, EmptyDict)

Spec == Init /\ [][Next]_vars

\* ----------------------------------------- the create path, one request at a time
CreateActors == {2}

NextCreate ==
  \/ \E payload \in CreatePayloads, patient_pk \in {NULL} \cup Patients, u \in CreateActors :
       nreq < MaxCreates /\ PerformCreate(1, u, payload, patient_pk)
  \/ CreateSample(1)
  \/ CreateFlow(1)
  \/ Commit(1)

SpecCreate == InitEmpty /\ [][NextCreate]_vars

\* ------------------------------------------------- listing over a populated store
\* the store after k creates that have committed one after the other
ListedRows ==
  {SerializerCreate(a @@ [patient_id |-> PatientConsultation[c].patient, consultation |-> c]) :
     a \in Opt("status", {2}), c \in DOMAIN PatientConsultation}

InitFilter ==
  \E k \in 1..MaxListed : \E rows \in [1..k -> ListedRows] :
    Seeded(k, rows, [i \in 1..k |-> "create"], [i \in 1..k |-> 1])

\* query parameters of GET
ListParams ==
  {a @@ b @@ c : a \in Opt("district", {1}),
                 b \in Opt("district_name", {<<"O", "k">>}),
                 c \in Opt("status", {2})}

NextFilter ==
  \E u \in Users, patient_pk \in {NULL, 1}, params \in ListParams :
    nreq < MaxLists /\ List(1, u, patient_pk, params)

SpecFilter == InitFilter /\ [][NextFilter]_vars

\* ================================================================ properties

\* ---- C3 (SpecFilter) ----------------------------------------------------
CreatorMatches(u, row) ==
  row.consultation_id # NULL /\ Facility[PatientConsultation[row.consultation_id].facility].created_by = u
StateMatches(u, row) ==
  row.consultation_id # NULL /\ Facility[PatientConsultation[row.consultation_id].facility].state = User[u].state
DistrictMatches(u, row) ==
  row.consultation_id # NULL /\ Facility[PatientConsultation[row.consultation_id].facility].district = User[u].district
RankAtLeast(u, rank) == User[u].user_type >= rank

\* the subset the claim names
ClaimedSubset(u, table, candidates) ==
  IF User[u].is_superuser
    THEN candidates
    ELSE {s \in candidates : CreatorMatches(u, table[s])}
         \cup (IF RankAtLeast(u, TYPE_StateLabAdmin)
                 THEN {s \in candidates : StateMatches(u, table[s])}
                 ELSE IF RankAtLeast(u, TYPE_DistrictLabAdmin)
                   THEN {s \in candidates : DistrictMatches(u, table[s])}
                   ELSE {})

\* C3: for every actor and candidate set, filter_queryset returns exactly the
\* full set for a superuser, otherwise the creator-matching samples unioned with
\* the state-matching ones for rank >= StateLabAdmin, or else the district-matching
\* ones for rank >= DistrictLabAdmin; every sample returned to a non-superuser is
\* creator-matching, or state-matching with rank >= StateLabAdmin, or
\* district-matching with rank >= DistrictLabAdmin; and the listing leaves the
\* samples as they were.
C3_FilterExact ==
  /\ [](last.kind = "list" =>
          /\ last.permitted = ClaimedSubset(last.user, samples, last.candidates)
          /\ ~User[last.user].is_superuser =>
               \A s \in last.permitted :
                  \/ CreatorMatches(last.user, samples[s])
                  \/ RankAtLeast(last.user, TYPE_StateLabAdmin) /\ StateMatches(last.user, samples[s])
                  \/ RankAtLeast(last.user, TYPE_DistrictLabAdmin) /\ DistrictMatches(last.user, samples[s]))
  /\ [][last'.kind = "list" /\ nreq' # nreq => samples' = samples /\ flows' = flows]_vars

\* a DistrictLabAdmin's listing that keeps a sample of the actor's district which
\* the actor did not create, and drops another sample
C3_Witness ==
  /\ last.kind = "list"
  /\ User[last.user].user_type = TYPE_DistrictLabAdmin
  /\ \E s \in last.permitted :
       DistrictMatches(last.user, samples[s]) /\ ~CreatorMatches(last.user, samples[s])
  /\ last.candidates \ last.permitted # {}

\* ---- C4 (SpecCreate) ----------------------------------------------------
NeitherId(payload) ==
  "patient_id" \notin DOMAIN payload /\ "consultation_id" \notin DOMAIN payload

\* C4 as stated: a create whose payload has neither patient_id nor
\* consultation_id always fails with the non-field error.
C4_Original ==
  (last.kind = "create" /\ NeitherId(last.payload)) => last.response = "non_field_errors"

\* C4 amended: a create whose payload has neither patient_id nor consultation_id
\* and that does not come through a nested patient route always fails with the
\* non-field error, and no sample and no flow entry is persisted: the request
\* never opens a transaction and the step that answers it leaves the store alone.
C4_NeitherFails ==
  /\ [](/\ (last.kind = "create" /\ NeitherId(last.payload) /\ last.patient_pk = NULL)
             => last.response = "non_field_errors"
        /\ \A r \in Reqs : req[r].kind = "create" =>
             ~(NeitherId(req[r].payload) /\ req[r].patient_pk = NULL))
  /\ [][(nreq' # nreq /\ last'.kind = "create" /\ last'.response = "non_field_errors")
          => (samples' = samples /\ flows' = flows /\ tx' = tx)]_vars

C4_Witness ==
  /\ last.kind = "create"
  /\ NeitherId(last.payload)
  /\ "notes" \in DOMAIN last.payload
  /\ last.patient_pk = NULL
  /\ last.response = "non_field_errors"
  /\ samples = EmptyDict /\ flows = {}

\* ---- C5 (SpecCreate) ----------------------------------------------------
\* C5 as stated: a create with a patient_id whose patient has no consultation
\* fails with the patient_id error whatever else the payload contains.
C5_Original ==
  (/\ last.kind = "create"
   /\ "patient_id" \in DOMAIN last.payload
   /\ last.payload["patient_id"] \in Patients
   /\ ConsultationsOf(last.payload["patient_id"]) = {})
  => last.response = "patient_id"

EffectivePatient(request) ==
  IF request.patient_pk # NULL THEN request.patient_pk
  ELSE IF "patient_id" \in DOMAIN request.payload THEN request.payload["patient_id"]
  ELSE NULL

NoConsultationCase(request) ==
  /\ request.kind = "create"
  /\ "consultation_id" \notin DOMAIN request.payload
  /\ EffectivePatient(request) \in Patients
  /\ ConsultationsOf(EffectivePatient(request)) = {}

\* C5 amended: a create whose payload has no consultation_id and whose effective
\* patient (the nested route's patient, else the payload's patient_id) exists and
\* has no consultation always fails with the patient_id error, and no sample and
\* no flow entry is persisted.
C5_NoConsultationFails ==
  /\ [](/\ NoConsultationCase(last) => last.response = "patient_id"
        /\ \A r \in Reqs : ~NoConsultationCase(req[r]))
  /\ [][(nreq' # nreq /\ last'.kind = "create" /\ last'.response = "patient_id")
          => (samples' = samples /\ flows' = flows /\ tx' = tx)]_vars

C5_Witness ==
  /\ NoConsultationCase(last)
  /\ last.patient_pk = NULL
  /\ "status" \in DOMAIN last.payload
  /\ last.response = "patient_id"
  /\ samples = EmptyDict /\ flows = {}

\* ---- C6 (SpecCreate) ----------------------------------------------------
\* C6: a create without consultation_id whose effective patient (the nested
\* route's patient, overriding the payload's patient_id, else the payload's
\* patient_id) has a consultation creates a sample linked to that patient's
\* consultation with the greatest id.
C6_LatestConsultation ==
  (/\ last.kind = "create"
   /\ last.response = "ok"
   /\ "consultation_id" \notin DOMAIN last.payload)
  => /\ last.id \in DOMAIN samples
     /\ samples[last.id].consultation_id \in ConsultationsOf(EffectivePatient(last))
     /\ \A c \in ConsultationsOf(EffectivePatient(last)) : c <= samples[last.id].consultation_id

\* created through the nested route of patient 1 with another patient_id in the payload
C6_Witness ==
  /\ last.kind = "create"
  /\ last.response = "ok"
  /\ "consultation_id" \notin DOMAIN last.payload
  /\ last.patient_pk = 1
  /\ "patient_id" \in DOMAIN last.payload /\ last.payload["patient_id"] = 2
  /\ samples[last.id].consultation_id = 14
  /\ Cardinality(ConsultationsOf(1)) > 1

\* ---- C9 (SpecCreate) ----------------------------------------------------
\* C9: every sample persisted by a create has a patient, and its consultation
\* belongs to that patient.
C9_ConsultationOfPatient ==
  \A s \in DOMAIN samples :
    /\ samples[s].patient_id # NULL
    /\ samples[s].patient_id = PatientConsultation[samples[s].consultation_id].patient

\* ---- C1 (Spec) ----------------------------------------------------------
FlowsOf(s) == {f \in flows : f.patient_sample = s}

\* the step in which the create or update of slot r succeeds
WriteSucceeds(r) ==
  /\ req[r].kind \in {"create", "update"}
  /\ pc[r] # "idle"
  /\ pc'[r] = "idle"
  /\ last'.response = "ok"

ClaimedNote(request) ==
  IF "notes" \in DOMAIN request.payload THEN request.payload["notes"]
  ELSE IF request.kind = "create" THEN "create"
  ELSE "updated by " \o User[request.user].username

\* C1: a successful create or update adds exactly one flow entry, to its own
\* sample; the entry has the sample's status after the write, the requesting actor
\* as author and the payload's note or else "create" / "updated by <username>";
\* and a sample updated n times has 1 + n flow entries.
C1_OneFlowPerWrite ==
  /\ [][\A r \in Reqs : WriteSucceeds(r) =>
          \E f \in flows' :
            /\ f \notin flows
            /\ flows' = flows \cup {f}
            /\ f.patient_sample = req[r].id
            /\ req[r].id \in DOMAIN samples'
            /\ f.status = samples'[req[r].id].status
            /\ f.created_by = req[r].user
            /\ f.notes = ClaimedNote(req[r])]_vars
  /\ [](\A s \in DOMAIN updated : Cardinality(FlowsOf(s)) = 1 + updated[s])

\* a sample updated twice, once with a note of its own and once without
C1_Witness ==
  \E s \in DOMAIN samples :
    /\ updated[s] = 2
    /\ Cardinality(FlowsOf(s)) = 3
    /\ \E f \in FlowsOf(s) : f.notes = "checked" /\ f.created_by = 1
    /\ \E f \in FlowsOf(s) : f.notes = "updated by staff"

\* ---- C2 (Spec) ----------------------------------------------------------
RowsTagged(rid) ==
  {s \in DOMAIN samples : samples[s].rid = rid} \cup {f \in flows : f.rid = rid}

\* C2: the sample write and its flow entry become visible together, and a
\* failed flow write rolls the sample write back.  Every committed sample row has
\* the flow entry of the write that produced it, a flow entry appears together
\* with its sample row, no row of an open transaction is in the store, and a
\* request that failed has left no row and leaves the store as it was.
C2_Atomic ==
  /\ [](/\ \A s \in DOMAIN samples :
             \E f \in flows : f.patient_sample = s /\ f.rid = samples[s].rid
        /\ \A r \in Reqs : pc[r] # "idle" => RowsTagged(req[r].rid) = {}
        /\ (last.kind \in {"create", "update"} /\ last.response # "ok")
             => RowsTagged(last.rid) = {})
  /\ [][/\ \A f \in flows' \ flows :
             /\ f.patient_sample \in DOMAIN samples'
             /\ samples'[f.patient_sample].rid = f.rid
        /\ \A r \in Reqs :
             (pc[r] \in {"create_flow", "update_flow", "commit"}
                /\ pc'[r] = "idle" /\ last'.response # "ok")
             => (samples' = samples /\ flows' = flows)]_vars

\* an update whose flow entry write failed after its sample write, while the
\* sample and its earlier flow entry are in the store
C2_Witness ==
  /\ last.kind = "update"
  /\ last.response = "DatabaseError"
  /\ last.rid # NULL
  /\ last.id \in DOMAIN samples
  /\ "status" \in DOMAIN last.payload
  /\ samples[last.id].status # last.payload["status"]
  /\ FlowsOf(last.id) # {}

LatestFlow(s) == CHOOSE f \in FlowsOf(s) : \A g \in FlowsOf(s) : g.created_date <= f.created_date

\* C10: in every committed state the most recently created flow entry of each
\* existing sample has the sample's current status.
C10_LatestFlowStatus ==
  \A s \in DOMAIN samples : FlowsOf(s) # {} /\ LatestFlow(s).status = samples[s].status

\* two updates that loaded the sample before either wrote: the second wrote back
\* the status it had loaded, over the status the first had set
C10_Witness ==
  \E s \in DOMAIN samples :
    /\ updated[s] = 2
    /\ samples[s].status = DefaultStatus
    /\ samples[s].result # DefaultResult
    /\ \E f \in FlowsOf(s) : f.status = 2

====
